---- MODULE Spec2Model ----
(***************************************************************************)
(* zagreb-lib: the Graph engine of src/src/lib.rs.                         *)
(*                                                                         *)
(* The state is one Graph value (n_vertices, edges, n_edges) and the last  *)
(* call made on it with its result.  `pre` is a history variable: the      *)
(* adjacency store as it was when the last call was entered.               *)
(*                                                                         *)
(* A HashSet iterates its elements in an unspecified order, so a search    *)
(* that depends on that order is modelled by the set of results it may     *)
(* give.  An overflowing usize subtraction panics in a build with overflow *)
(* checks and wraps in a build without: both outcomes are kept.            *)
(***************************************************************************)
EXTENDS Integers, FiniteSets, Sequences, TLC

VARIABLES n_vertices, edges, n_edges, call, pre

vars == <<n_vertices, edges, n_edges, call, pre>>

(* Bounds of the model. *)
MaxN == 4
MaxQN == 6
MaxK == 6
MaxShapeN == 8
MaxFamilyK == 4
MaxPathN == 5
MaxMapN == 3
MaxBuildN == 6

(* Stand-in for usize::MAX (2^64 - 1), which is outside TLC's integers.    *)
(* Only its order relative to the small values of the model is used.       *)
UsizeMax == (2^30 - 1) + 2^30

(* The two &'static str errors of add_edge and degree. *)
InvalidVertex == "Vertex index out of bounds"
SelfLoop == "Self-loops are not allowed"

Ok(v) == [tag |-> "Ok", val |-> v]
Err(msg) == [tag |-> "Err", val |-> msg]
Panic == [tag |-> "Panic", val |-> "attempt to subtract with overflow"]
Unit == <<>>

Vertices == 0 .. (n_vertices - 1)

(* Graph::new(n): every vertex gets an empty neighbour set, n_edges = 0. *)
New(n) == [n_vertices |-> n, edges |-> [i \in 0 .. (n - 1) |-> {}], n_edges |-> 0]

Snapshot == [edges |-> edges, n_edges |-> n_edges]

(* ---------------------------------------------------------------------- *)
(* Adjacency store and mutation                                            *)
(* ---------------------------------------------------------------------- *)

(* The bounds check that opens add_edge. *)
OutOfBounds(u, v) == u >= n_vertices \/ v >= n_vertices

(* The self-loop check of add_edge. *)
IsSelfLoopNever(u, v) == FALSE
IsSelfLoop(u, v) == u = v

(* The membership test add_edge makes before inserting. *)
EdgeExistsNever(e, u, v) == FALSE
EdgeExists(e, u, v) == v \in e[u]

(* The two inserts at the end of add_edge. *)
InsertOneWay(e, u, v) == [e EXCEPT ![u] = e[u] \cup {v}]
InsertBoth(e, u, v) == [e EXCEPT ![u] = e[u] \cup {v}, ![v] = e[v] \cup {u}]

(* Graph::add_edge(u, v) *)
AddEdge(u, v) ==
    /\ pre' = Snapshot
    /\ UNCHANGED n_vertices
    /\ IF OutOfBounds(u, v)
       THEN /\ call' = [op |-> "add_edge", args |-> <<u, v>>, ret |-> Err(InvalidVertex)]
            /\ UNCHANGED <<edges, n_edges>>
       ELSE IF IsSelfLoop(u, v)
       THEN /\ call' = [op |-> "add_edge", args |-> <<u, v>>, ret |-> Err(SelfLoop)]
            /\ UNCHANGED <<edges, n_edges>>
       ELSE IF EdgeExists(edges, u, v)
       THEN /\ call' = [op |-> "add_edge", args |-> <<u, v>>, ret |-> Ok(Unit)]
            /\ UNCHANGED <<edges, n_edges>>
       ELSE /\ edges' = InsertBoth(edges, u, v)
            /\ n_edges' = n_edges + 1
            /\ call' = [op |-> "add_edge", args |-> <<u, v>>, ret |-> Ok(Unit)]

(* Graph::degree(v) as a value: Err for an id out of range, else the set's len. *)
DegreeUnchecked(v) ==
    IF v \in DOMAIN edges THEN Ok(Cardinality(edges[v])) ELSE Ok(0)
DegreeResult(v) ==
    IF v >= n_vertices THEN Err(InvalidVertex) ELSE Ok(Cardinality(edges[v]))

(* Graph::degree(v) *)
Degree(v) ==
    /\ pre' = Snapshot
    /\ call' = [op |-> "degree", args |-> <<v>>, ret |-> DegreeResult(v)]
    /\ UNCHANGED <<n_vertices, edges, n_edges>>

(* Graph::edge_count() *)
EdgeCount ==
    /\ pre' = Snapshot
    /\ call' = [op |-> "edge_count", args |-> <<>>, ret |-> Ok(n_edges)]
    /\ UNCHANGED <<n_vertices, edges, n_edges>>

(* ---------------------------------------------------------------------- *)
(* Basic metrics                                                           *)
(* ---------------------------------------------------------------------- *)

(* usize subtraction a - b: the wrapped value, and whether it overflowed.  *)
UsizeSub(a, b) ==
    IF a >= b THEN [val |-> a - b, overflow |-> FALSE]
    ELSE [val |-> UsizeMax - (b - a) + 1, overflow |-> TRUE]

Deg(v) == Cardinality(edges[v])

SetMin(S) == CHOOSE x \in S : \A y \in S : x <= y
SetMax(S) == CHOOSE x \in S : \A y \in S : x >= y

(* Graph::min_degree(): the minimum over 0..n, 0 for the empty range. *)
MinDegree == IF Vertices = {} THEN 0 ELSE SetMin({Deg(v) : v \in Vertices})

(* Graph::max_degree(): the maximum over 0..n, 0 for the empty range. *)
MaxDegree == IF Vertices = {} THEN 0 ELSE SetMax({Deg(v) : v \in Vertices})

(* The sum the index takes, deg * deg for each vertex; beside it the sum   *)
(* of the plain degrees.                                                   *)
RECURSIVE SumDegrees(_)
SumDegrees(v) == IF v >= n_vertices THEN 0 ELSE Deg(v) + SumDegrees(v + 1)
RECURSIVE SumSquares(_)
SumSquares(v) == IF v >= n_vertices THEN 0 ELSE Deg(v) * Deg(v) + SumSquares(v + 1)

(* Graph::first_zagreb_index(): the sum of deg * deg for v in 0..n. *)
FirstZagrebIndex == SumSquares(0)

(* ---------------------------------------------------------------------- *)
(* Structural classifiers                                                  *)
(* ---------------------------------------------------------------------- *)

CountDegree(d) == Cardinality({v \in Vertices : Deg(v) = d})

(* Graph::is_complete() *)
IsComplete ==
    IF n_vertices <= 1 THEN TRUE
    ELSE /\ \A v \in Vertices : Deg(v) = n_vertices - 1
         /\ n_edges = (n_vertices * (n_vertices - 1)) \div 2

(* Graph::is_cycle(); beside it a test that also asks for the ring         *)
(* 0 - 1 - ... - (n-1) - 0 itself.                                         *)
IsCycleRing ==
    /\ MinDegree = 2 /\ MaxDegree = 2 /\ n_edges = n_vertices
    /\ \A v \in Vertices : (v + 1) % n_vertices \in edges[v]
IsCycle == MinDegree = 2 /\ MaxDegree = 2 /\ n_edges = n_vertices

(* Graph::is_star() *)
IsStar ==
    IF n_vertices <= 1 THEN FALSE
    ELSE /\ CountDegree(1) = n_vertices - 1
         /\ CountDegree(n_vertices - 1) = 1

(* Graph::is_path(); the && of its last line evaluates n - 2 only when     *)
(* exactly two vertices have degree 1, which needs n >= 2.                 *)
IsPath ==
    IF n_edges # UsizeSub(n_vertices, 1).val THEN FALSE
    ELSE CountDegree(1) = 2 /\ CountDegree(2) = UsizeSub(n_vertices, 2).val

(* ---------------------------------------------------------------------- *)
(* Connectivity subsystem                                                  *)
(* ---------------------------------------------------------------------- *)

(* for &neighbor in self.edges.get(&v).unwrap(): the orders in which a     *)
(* HashSet may yield its members, which is every order.                    *)
RECURSIVE SetToSeq(_)
SetToSeq(S) ==
    IF S = {} THEN {<<>>}
    ELSE UNION {{<<x>> \o rest : rest \in SetToSeq(S \ {x})} : x \in S}

(* The BFS loop of is_connected: pop v, mark and push its unvisited        *)
(* neighbours in the order the set yields them; the visited sets the loop  *)
(* can end with when the queue is empty, one per choice of orders.         *)
RECURSIVE BfsVisited(_, _, _)
BfsVisited(e, visited, queue) ==
    IF queue = <<>> THEN {visited}
    ELSE LET v == Head(queue)
             new == e[v] \ visited
         IN UNION {BfsVisited(e, visited \cup new, Tail(queue) \o order) :
                   order \in SetToSeq(new)}

(* Graph::is_connected(): the value returned, which is the same for every  *)
(* iteration order (no value is defined here if two orders disagree).      *)
IsConnected ==
    IF n_vertices = 0 THEN TRUE
    ELSE LET outcomes == {Cardinality(visited) = n_vertices :
                              visited \in BfsVisited(edges, {0}, <<0>>)}
         IN CHOOSE b \in outcomes : outcomes = {b}

(* The BFS of find_path_in_subgraph, layer by layer: the vertices first    *)
(* discovered from the previous layer, until t is dequeued or the queue    *)
(* runs empty.  layers[i + 1] holds the vertices at distance i from s.     *)
RECURSIVE BfsLayers(_, _, _, _)
BfsLayers(e, t, visited, layers) ==
    LET layer == layers[Len(layers)]
        next == (UNION {e[u] : u \in layer}) \ visited
    IN IF t \in layer \/ next = {} THEN layers
       ELSE BfsLayers(e, t, visited \cup next, Append(layers, next))

(* The parent chains from v (in layer i) back to s, reversed: parent[v] is *)
(* the vertex of the previous layer that was dequeued first among those    *)
(* with v in their neighbour set, and the set iteration order lets any of  *)
(* them be that first one.                                                 *)
RECURSIVE PathsTo(_, _, _, _)
PathsTo(e, layers, v, i) ==
    IF i = 1 THEN {<<v>>}
    ELSE UNION {{Append(p, v) : p \in PathsTo(e, layers, u, i - 1)} :
                u \in {w \in layers[i - 1] : v \in e[w]}}

(* The walks from s that repeat no vertex and stop at t, whatever their     *)
(* length: the extensions of `path` by unvisited neighbours.               *)
RECURSIVE ExtendTo(_, _, _)
ExtendTo(e, t, path) ==
    LET last == path[Len(path)]
        seen == {path[i] : i \in 1 .. Len(path)}
    IN IF last = t THEN {path}
       ELSE UNION {ExtendTo(e, t, Append(path, v)) : v \in e[last] \ seen}

SimplePaths(e, s, t) == ExtendTo(e, t, <<s>>)

(* Graph::find_path_in_subgraph(edges, s, t): the paths the search may     *)
(* return, one for each way the neighbour sets may be iterated; the empty  *)
(* set stands for None.                                                    *)
FindPathInSubgraph(e, s, t) ==
    LET layers == BfsLayers(e, t, {s}, <<{s}>>)
        last == Len(layers)
    IN IF t \in layers[last] THEN PathsTo(e, layers, t, last) ELSE {}

(* path.iter().skip(1).take(path.len() - 2) *)
InternalVertices(path) == {path[i] : i \in 2 .. (Len(path) - 1)}

(* The inner loop on one internal vertex v: each neighbour of v is removed *)
(* from v's set and v from that neighbour's set.                           *)
IsolateVertex(w, v) ==
    [x \in DOMAIN w |-> IF x = v THEN {} ELSE IF x \in w[v] THEN w[x] \ {v} ELSE w[x]]

(* The removal of every internal vertex of a found path, in path order;    *)
(* beside it a loop that removes nothing.                                  *)
KeepInternal(w, path, i) == w
RECURSIVE RemoveInternal(_, _, _)
RemoveInternal(w, path, i) ==
    IF i > Len(path) - 1 THEN w
    ELSE RemoveInternal(IsolateVertex(w, path[i]), path, i + 1)

(* let max_attempts = 100 *)
MaxAttempts == 100

(* The while-let loop of find_vertex_disjoint_paths: the values path_count *)
(* may have when the loop ends.  limit is max_possible_paths - 1 in the    *)
(* adjacent case and max_possible_paths in the other.                      *)
RECURSIVE SearchLoop(_, _, _, _, _, _)
SearchLoop(w, s, t, limit, path_count, attempts) ==
    LET found == FindPathInSubgraph(w, s, t)
    IN IF found = {} THEN {path_count}
       ELSE IF path_count + 1 >= limit \/ attempts >= MaxAttempts
            THEN {path_count + 1}
            ELSE UNION {SearchLoop(w2, s, t, limit, path_count + 1, attempts + 1) :
                        w2 \in {RemoveInternal(w, path, 2) : path \in found}}

(* modified_edges: the adjacency mapping without the direct edge (s, t);   *)
(* beside it a copy that keeps the edge.                                   *)
KeepDirectEdge(s, t) == edges
WithoutDirectEdge(s, t) ==
    [x \in DOMAIN edges |->
        IF x = s THEN edges[x] \ {t} ELSE IF x = t THEN edges[x] \ {s} ELSE edges[x]]

MinOf(a, b) == IF a <= b THEN a ELSE b

(* Graph::find_vertex_disjoint_paths(s, t): the values it may return. *)
FindVertexDisjointPaths(s, t) ==
    IF IsComplete THEN {n_vertices - 1}
    ELSE IF IsCycle THEN {2}
    ELSE IF IsPath /\ ((s = 0 /\ t = n_vertices - 1) \/ (t = 0 /\ s = n_vertices - 1))
    THEN {1}
    ELSE LET max_possible_paths == MinOf(Deg(s), Deg(t))
         IN IF t \in edges[s]
            THEN {1 + c : c \in SearchLoop(WithoutDirectEdge(s, t), s, t,
                                            max_possible_paths - 1, 0, 0)}
            ELSE SearchLoop(edges, s, t, max_possible_paths, 0, 0)

(* The pair loop of mengers_theorem_check from the pair (s, t) on, in the  *)
(* order for s in 0..n, for t in s+1..n: false at the first pair with      *)
(* fewer than k paths, true when no pair is left.                          *)
RECURSIVE PairLoop(_, _, _)
PairLoop(k, s, t) ==
    IF s >= n_vertices THEN {TRUE}
    ELSE IF t >= n_vertices THEN PairLoop(k, s + 1, s + 2)
    ELSE LET counts == FindVertexDisjointPaths(s, t)
         IN (IF \E c \in counts : c < k THEN {FALSE} ELSE {})
            \cup (IF \E c \in counts : ~(c < k) THEN PairLoop(k, s, t + 1) ELSE {})

(* Graph::mengers_theorem_check(k): the values it may return. *)
MengersCycleOnlyOne(k) ==
    IF n_vertices <= k THEN {FALSE}
    ELSE IF MinDegree < k THEN {FALSE}
    ELSE IF k = 1 THEN {IsConnected}
    ELSE IF IsCycle THEN {k < 2}
    ELSE IF IsComplete THEN {k <= n_vertices - 1}
    ELSE PairLoop(k, 0, 1)
MengersTheoremCheck(k) ==
    IF n_vertices <= k THEN {FALSE}
    ELSE IF MinDegree < k THEN {FALSE}
    ELSE IF k = 1 THEN {IsConnected}
    ELSE IF IsCycle THEN {k <= 2}
    ELSE IF IsComplete THEN {k <= n_vertices - 1}
    ELSE PairLoop(k, 0, 1)

(* The outcomes of a call that evaluates n_vertices - 1 and goes on to     *)
(* `results`: when the subtraction overflows, a panic (overflow checks on, *)
(* the debug and test profile) or the results computed from the wrapped    *)
(* value (overflow checks off, the release profile).                       *)
AfterNMinus1(results) ==
    IF UsizeSub(n_vertices, 1).overflow THEN {Panic} \cup {Ok(r) : r \in results}
    ELSE {Ok(r) : r \in results}

NMinus1 == UsizeSub(n_vertices, 1).val

(* Graph::is_k_connected_exact(k): the results it may return. *)
IsKConnectedExact(k) ==
    AfterNMinus1(
        IF k > NMinus1 THEN {FALSE}
        ELSE IF MinDegree < k THEN {FALSE}
        ELSE IF IsComplete THEN {k <= NMinus1}
        ELSE IF k = 1 THEN {IsConnected}
        ELSE MengersTheoremCheck(k))

(* The last heuristic of is_k_connected_approx, z1 / e >= k * (2e / n) in  *)
(* f64: 0.0 / 0.0 is NaN and compares false; otherwise the operands are    *)
(* small integers and the comparison is that of the exact quotients.       *)
ZagrebRatioAtLeast(k) ==
    IF n_edges = 0 THEN FALSE
    ELSE FirstZagrebIndex * n_vertices >= 2 * k * n_edges * n_edges

(* Graph::is_k_connected_approx(k); beside it a checker without the        *)
(* density threshold, which leaves the decision to the Zagreb ratio.       *)
IsKConnectedApproxNoDensity(k) ==
    AfterNMinus1(
        IF k > NMinus1 THEN {FALSE}
        ELSE IF MinDegree < k THEN {FALSE}
        ELSE IF k = 1 THEN {IsConnected}
        ELSE IF IsComplete THEN {k <= NMinus1}
        ELSE IF IsCycle THEN {k <= 2}
        ELSE IF IsPath THEN {k <= 1}
        ELSE IF IsStar THEN {k <= 1}
        ELSE {ZagrebRatioAtLeast(k)})
IsKConnectedApprox(k) ==
    AfterNMinus1(
        IF k > NMinus1 THEN {FALSE}
        ELSE IF MinDegree < k THEN {FALSE}
        ELSE IF k = 1 THEN {IsConnected}
        ELSE IF IsComplete THEN {k <= NMinus1}
        ELSE IF IsCycle THEN {k <= 2}
        ELSE IF IsPath THEN {k <= 1}
        ELSE IF IsStar THEN {k <= 1}
        ELSE IF n_edges >= ((n_vertices - 1) * k) \div 2 + 1 THEN {TRUE}
        ELSE {ZagrebRatioAtLeast(k)})

(* Graph::is_k_connected(k, use_exact) *)
IsKConnectedStrict(k, use_exact) ==
    IF IsComplete THEN AfterNMinus1({k < NMinus1})
    ELSE IF use_exact THEN IsKConnectedExact(k)
    ELSE IsKConnectedApprox(k)
IsKConnected(k, use_exact) ==
    IF IsComplete THEN AfterNMinus1({k <= NMinus1})
    ELSE IF use_exact THEN IsKConnectedExact(k)
    ELSE IsKConnectedApprox(k)

(* ---------------------------------------------------------------------- *)
(* Specification of the adjacency store                                    *)
(* ---------------------------------------------------------------------- *)

Init ==
    /\ \E n \in 0 .. MaxN :
          /\ n_vertices = New(n).n_vertices
          /\ edges = New(n).edges
          /\ n_edges = New(n).n_edges
          /\ call = [op |-> "new", args |-> <<n>>, ret |-> Ok(Unit)]
    /\ pre = [edges |-> edges, n_edges |-> n_edges]

Next ==
    \/ \E u \in 0 .. MaxN, v \in 0 .. MaxN : AddEdge(u, v)
    \/ \E v \in 0 .. MaxN : Degree(v)
    \/ EdgeCount

Spec == Init /\ [][Next]_vars

(* ---------------------------------------------------------------------- *)
(* Specification of the connectivity queries                               *)
(* ---------------------------------------------------------------------- *)

Pending == [tag |-> "Pending", val |-> <<>>]

PairsOf(n) == {p \in (0 .. (n - 1)) \X (0 .. (n - 1)) : p[1] < p[2]}

(* The graph add_edge builds from new(n) when called once for each pair of E. *)
GraphOf(n, E) ==
    [n_vertices |-> n,
     edges |-> [v \in 0 .. (n - 1) |->
                  {u \in 0 .. (n - 1) : <<u, v>> \in E \/ <<v, u>> \in E}],
     n_edges |-> Cardinality(E)]

(* The graphs of at most maxn vertices. *)
AllGraphs(maxn) ==
    UNION {{GraphOf(n, E) : E \in SUBSET PairsOf(n)} : n \in 0 .. maxn}

(* The complete graph Kn, built by add_edge(i, j) for all i < j. *)
CompleteGraph(n) == GraphOf(n, PairsOf(n))

(* The cycle graph Cn, built by add_edge(i, (i + 1) % n) for all i. *)
CycleGraph(n) == GraphOf(n, {<<i, (i + 1) % n>> : i \in 0 .. (n - 1)})

(* One of `graphs` has been built and one of `calls` made on it. *)
InitCall(graphs, calls) ==
    /\ \E g \in graphs :
          /\ n_vertices = g.n_vertices
          /\ edges = g.edges
          /\ n_edges = g.n_edges
    /\ call \in calls
    /\ pre = [edges |-> edges, n_edges |-> n_edges]

(* The call `op` has been made and has not returned. *)
Awaiting(op) == call.op = op /\ call.ret = Pending

(* The pending call returns r; no query changes the graph. *)
Return(r) ==
    /\ call' = [call EXCEPT !.ret = r]
    /\ UNCHANGED <<n_vertices, edges, n_edges, pre>>

IsKConnectedReturns ==
    /\ Awaiting("is_k_connected")
    /\ \E r \in IsKConnected(call.args[1], call.args[2]) : Return(r)

IsKConnectedApproxReturns ==
    /\ Awaiting("is_k_connected_approx")
    /\ \E r \in IsKConnectedApprox(call.args[1]) : Return(r)

IsKConnectedExactReturns ==
    /\ Awaiting("is_k_connected_exact")
    /\ \E r \in IsKConnectedExact(call.args[1]) : Return(r)

KConnectedCalls(maxk) ==
    [op : {"is_k_connected"}, args : (0 .. maxk) \X BOOLEAN, ret : {Pending}]
    \cup [op : {"is_k_connected_approx", "is_k_connected_exact"},
          args : {<<k>> : k \in 0 .. maxk}, ret : {Pending}]

ConnectivityCalls == KConnectedCalls(MaxK)

InitConnectivity == InitCall(AllGraphs(MaxQN), ConnectivityCalls)

NextConnectivity ==
    \/ IsKConnectedReturns
    \/ IsKConnectedApproxReturns
    \/ IsKConnectedExactReturns

SpecConnectivity == InitConnectivity /\ [][NextConnectivity]_vars

(* ---------------------------------------------------------------------- *)
(* Specification of the connectivity queries on the named graph shapes     *)
(* ---------------------------------------------------------------------- *)

ShapeGraphs ==
    {CompleteGraph(n) : n \in 2 .. MaxShapeN} \cup {CycleGraph(n) : n \in 3 .. MaxShapeN}

InitShapes == InitCall(ShapeGraphs, KConnectedCalls(MaxShapeN + 1))

NextShapes ==
    \/ IsKConnectedReturns
    \/ IsKConnectedApproxReturns
    \/ IsKConnectedExactReturns

SpecShapes == InitShapes /\ [][NextShapes]_vars

(* ---------------------------------------------------------------------- *)
(* Specification of the metric and connectivity queries together           *)
(* ---------------------------------------------------------------------- *)

VertexCountReturns == Awaiting("vertex_count") /\ Return(Ok(n_vertices))

EdgeCountReturns == Awaiting("edge_count") /\ Return(Ok(n_edges))

MinDegreeReturns == Awaiting("min_degree") /\ Return(Ok(MinDegree))

MaxDegreeReturns == Awaiting("max_degree") /\ Return(Ok(MaxDegree))

FirstZagrebIndexReturns == Awaiting("first_zagreb_index") /\ Return(Ok(FirstZagrebIndex))

MetricCalls ==
    [op : {"vertex_count", "edge_count", "min_degree", "max_degree",
           "first_zagreb_index"},
     args : {<<>>}, ret : {Pending}]

InitQueries == InitCall(AllGraphs(MaxN), MetricCalls \cup ConnectivityCalls)

NextQueries ==
    \/ VertexCountReturns
    \/ EdgeCountReturns
    \/ MinDegreeReturns
    \/ MaxDegreeReturns
    \/ FirstZagrebIndexReturns
    \/ IsKConnectedReturns
    \/ IsKConnectedApproxReturns
    \/ IsKConnectedExactReturns

SpecQueries == InitQueries /\ [][NextQueries]_vars

(* ---------------------------------------------------------------------- *)
(* Petersen fingerprint, greedy independence number, Theorems 1, 2 and 3   *)
(* ---------------------------------------------------------------------- *)

(* The triangle scan of is_petersen: some u has neighbours v # w that are  *)
(* adjacent to each other.                                                 *)
HasTriangle ==
    \E u \in Vertices : \E v \in edges[u], w \in edges[u] :
        v # w /\ w \in edges[v]

(* The square scan of is_petersen: a closed walk u - v - w - x - u with    *)
(* w # u, x # v and x # u.                                                 *)
HasSquare ==
    \E u \in Vertices : \E v \in edges[u] : \E w \in edges[v] :
        w # u /\ \E x \in edges[w] : x # v /\ x # u /\ u \in edges[x]

(* Graph::is_petersen(): 10 vertices, 15 edges, 3-regular, and neither     *)
(* scan finds a short cycle (the square scan runs only without triangle).  *)
IsPetersenNever == FALSE
IsPetersen ==
    /\ n_vertices = 10 /\ n_edges = 15
    /\ MinDegree = 3 /\ MaxDegree = 3
    /\ ~HasTriangle
    /\ ~HasSquare

(* The key of min_by_key: the number of neighbours of v still remaining. *)
RemainingDegree(v, remaining) == Cardinality(edges[v] \cap remaining)

(* The vertices min_by_key can return: it yields the first minimum in the  *)
(* iteration order of the HashSet, so any minimizer can be the one.        *)
AnyRemainingVertex(remaining) == remaining
MinDegreeVertex(remaining) ==
    {v \in remaining :
        \A u \in remaining :
            RemainingDegree(v, remaining) <= RemainingDegree(u, remaining)}

(* The loop of independence_number_approx: the independent sets it can     *)
(* end with, one per sequence of choices among the minimizers; beside it a *)
(* loop that leaves the neighbours of the selected vertex in the remaining *)
(* set.                                                                    *)
RECURSIVE GreedyKeepNeighbours(_, _)
GreedyKeepNeighbours(remaining_vertices, independent_set) ==
    IF remaining_vertices = {} THEN {independent_set}
    ELSE UNION {GreedyKeepNeighbours(remaining_vertices \ {v},
                                     independent_set \cup {v}) :
                v \in MinDegreeVertex(remaining_vertices)}
RECURSIVE GreedyIndependentSets(_, _)
GreedyIndependentSets(remaining_vertices, independent_set) ==
    IF remaining_vertices = {} THEN {independent_set}
    ELSE UNION {GreedyIndependentSets((remaining_vertices \ {v}) \ edges[v],
                                      independent_set \cup {v}) :
                v \in MinDegreeVertex(remaining_vertices)}

(* Graph::independence_number_approx(): the sizes it can return. *)
IndependenceNumberApprox ==
    {Cardinality(I) : I \in GreedyIndependentSets(Vertices, {})}

IsSquare(x) == \E r \in 0 .. x : r * r = x

(* The least r >= from with r * r >= x. *)
RECURSIVE CeilSqrtFrom(_, _)
CeilSqrtFrom(x, from) == IF from * from >= x THEN from ELSE CeilSqrtFrom(x, from + 1)

CeilSqrt(x) == CeilSqrtFrom(x, 0)

(* ((sqrt(a) - sqrt(d))^2 * e as f64) as usize, the truncated third term   *)
(* of the thresholds. In the reals it is e(a + d) - sqrt(4 e^2 a d), whose *)
(* floor is e(a + d) - ceil(sqrt(4 e^2 a d)). The f64 product is exact     *)
(* when a = d, when e = 0 or when both roots are integers; when the real   *)
(* value is not an integer the rounding error is too small to cross one;   *)
(* when it is an integer reached through irrational roots, the f64 product *)
(* lands on it or just below, and truncation then gives one less.          *)
Part3Truncated(a, d, e) ==
    LET floor == e * (a + d) - CeilSqrt(4 * e * e * a * d)
    IN IF a = d \/ e = 0 \/ (IsSquare(a) /\ IsSquare(d)) \/ ~IsSquare(a * d)
       THEN {floor}
       ELSE {floor - 1, floor}

(* The threshold of Theorem 1 (j = 1) and of Theorem 2 (j = 2):            *)
(* (n - k - j) * delta_max^2 + e^2 / (k + j) + the truncated third term.   *)
ZagrebThreshold(k, j) ==
    LET part1 == (n_vertices - k - j) * MaxDegree * MaxDegree
        part2 == (n_edges * n_edges) \div (k + j)
    IN {part1 + part2 + part3 :
            part3 \in Part3Truncated(n_vertices - k - j, MinDegree, n_edges)}

(* The booleans is_k_connected(k, use_exact) can return. *)
KConnected(k, use_exact) == {r.val : r \in IsKConnected(k, use_exact)}

(* Graph::is_likely_hamiltonian(use_exact_connectivity): the values it can *)
(* return, one per outcome of the connectivity check.                      *)
IsLikelyHamiltonian(use_exact_connectivity) ==
    IF n_vertices < 3 THEN {FALSE}
    ELSE IF IsComplete THEN {TRUE}
    ELSE IF IsCycle THEN {TRUE}
    ELSE IF IsStar /\ n_vertices > 3 THEN {FALSE}
    ELSE IF IsPetersen THEN {FALSE}
    ELSE UNION {IF ~connected THEN {FALSE}
                ELSE IF MinDegree >= n_vertices \div 2 THEN {TRUE}
                ELSE {FirstZagrebIndex >= threshold :
                         threshold \in ZagrebThreshold(2, 1)} :
                connected \in KConnected(2, use_exact_connectivity)}

(* is_likely_traceable from its connectivity check on: 1-connected, then   *)
(* the Dirac-like degree condition, which alone decides below 9 vertices,  *)
(* then Theorem 2.                                                         *)
Theorem2Check(use_exact_connectivity) ==
    UNION {IF ~connected THEN {FALSE}
           ELSE IF MinDegree >= (n_vertices - 1) \div 2 THEN {TRUE}
           ELSE IF n_vertices < 9 THEN {MinDegree >= (n_vertices - 1) \div 2}
           ELSE {FirstZagrebIndex >= threshold :
                    threshold \in ZagrebThreshold(1, 2)} :
           connected \in KConnected(1, use_exact_connectivity)}

(* is_likely_traceable after its Hamiltonian shortcut answered h. *)
TraceableAfter(h, use_exact_connectivity) ==
    IF h THEN {TRUE}
    ELSE IF IsComplete THEN {TRUE}
    ELSE IF IsPath THEN {TRUE}
    ELSE IF IsStar THEN {TRUE}
    ELSE IF IsPetersen THEN {TRUE}
    ELSE Theorem2Check(use_exact_connectivity)

(* Graph::is_likely_traceable(use_exact_connectivity): the values it can   *)
(* return.                                                                 *)
IsLikelyTraceableNoShortcut(use_exact_connectivity) ==
    IF n_vertices < 2 THEN {FALSE}
    ELSE TraceableAfter(FALSE, use_exact_connectivity)
IsLikelyTraceableNoPath(use_exact_connectivity) ==
    IF n_vertices < 2 THEN {FALSE}
    ELSE UNION {IF h \/ IsComplete \/ IsStar \/ IsPetersen THEN {TRUE}
                ELSE Theorem2Check(use_exact_connectivity) :
                h \in IsLikelyHamiltonian(use_exact_connectivity)}
IsLikelyTraceable(use_exact_connectivity) ==
    IF n_vertices < 2 THEN {FALSE}
    ELSE UNION {TraceableAfter(h, use_exact_connectivity) :
                h \in IsLikelyHamiltonian(use_exact_connectivity)}

(* Graph::zagreb_upper_bound(): the f64 values it can return, one per beta *)
(* the greedy routine can return.  The value                               *)
(*   (n - beta) * delta_max^2 + e^2 / beta                                 *)
(*     + (sqrt(n - beta) - sqrt(delta))^2 * e                              *)
(* is kept exactly, as num / den - sqrt(root); den = 0 is the division     *)
(* 0.0 / 0.0 of the graph without vertices, whose result is NaN.           *)
ZagrebUpperBound ==
    {LET a == n_vertices - beta
         part1 == a * MaxDegree * MaxDegree
     IN [num |-> beta * (part1 + n_edges * (a + MinDegree)) + n_edges * n_edges,
         den |-> beta,
         root |-> 4 * n_edges * n_edges * a * MinDegree] :
     beta \in IndependenceNumberApprox}

(* z as f64 <= bound, as the tests compare: false against NaN; otherwise   *)
(* den * z <= num - den * sqrt(root), decided in the integers.             *)
UsizeLeF64(z, bound) ==
    /\ bound.den # 0
    /\ LET rest == bound.num - bound.den * z
       IN rest >= 0 /\ bound.den * bound.den * bound.root <= rest * rest

(* Graph::find_path(s, t) *)
FindPath(s, t) == FindPathInSubgraph(edges, s, t)

(* Option<Vec<usize>> *)
Some(path) == [tag |-> "Some", val |-> path]
None == [tag |-> "None", val |-> <<>>]

AsOption(paths) == IF paths = {} THEN {None} ELSE {Some(p) : p \in paths}

(* The while-let loop of find_vertex_disjoint_paths with the paths that it *)
(* counts kept in order: the sequences of counted paths the loop can end   *)
(* with.                                                                   *)
RECURSIVE SearchLoopPaths(_, _, _, _, _, _)
SearchLoopPaths(w, s, t, limit, counted, attempts) ==
    LET found == FindPathInSubgraph(w, s, t)
    IN IF found = {} THEN {counted}
       ELSE IF Len(counted) + 1 >= limit \/ attempts >= MaxAttempts
            THEN {Append(counted, path) : path \in found}
            ELSE UNION {SearchLoopPaths(RemoveInternal(w, path, 2), s, t, limit,
                                        Append(counted, path), attempts + 1) :
                        path \in found}

(* Whether find_vertex_disjoint_paths(s, t) returns before its loops. *)
FastPath(s, t) ==
    \/ IsComplete
    \/ IsCycle
    \/ IsPath /\ ((s = 0 /\ t = n_vertices - 1) \/ (t = 0 /\ s = n_vertices - 1))

(* The sequences of paths the loop of find_vertex_disjoint_paths(s, t) can *)
(* count: in modified_edges up to max_possible_paths - 1 of them when s    *)
(* and t are adjacent, in the whole graph up to max_possible_paths else.   *)
CountedPaths(s, t) ==
    LET max_possible_paths == MinOf(Deg(s), Deg(t))
    IN IF t \in edges[s]
       THEN SearchLoopPaths(WithoutDirectEdge(s, t), s, t,
                            max_possible_paths - 1, <<>>, 0)
       ELSE SearchLoopPaths(edges, s, t, max_possible_paths, <<>>, 0)

(* ---------------------------------------------------------------------- *)
(* The graphs the tests build                                              *)
(* ---------------------------------------------------------------------- *)

(* The path graph Pn, built by add_edge(i, i + 1). *)
PathGraph(n) == GraphOf(n, {<<i, i + 1>> : i \in 0 .. (n - 2)})

(* The star graph K(1, n - 1), built by add_edge(0, i). *)
StarGraph(n) == GraphOf(n, {<<0, i>> : i \in 1 .. (n - 1)})

(* The complete bipartite graph K(a, b), built by add_edge(i, j) for i < a *)
(* and a <= j < a + b.                                                     *)
CompleteBipartiteGraph(a, b) ==
    GraphOf(a + b, (0 .. (a - 1)) \X (a .. (a + b - 1)))

(* The Petersen graph: outer pentagon, spokes, inner pentagram. *)
PetersenGraph ==
    GraphOf(10, {<<0, 1>>, <<1, 2>>, <<2, 3>>, <<3, 4>>, <<4, 0>>,
                 <<0, 5>>, <<1, 6>>, <<2, 7>>, <<3, 8>>, <<4, 9>>,
                 <<5, 7>>, <<7, 9>>, <<9, 6>>, <<6, 8>>, <<8, 5>>})

(* The prism: triangles 0-1-2 and 3-4-5 joined by 0-3, 1-4 and 2-5. *)
PrismGraph ==
    GraphOf(6, {<<0, 1>>, <<1, 2>>, <<2, 0>>, <<3, 4>>, <<4, 5>>, <<5, 3>>,
                <<0, 3>>, <<1, 4>>, <<2, 5>>})

(* ---------------------------------------------------------------------- *)
(* Returns of the heuristic and path queries                               *)
(* ---------------------------------------------------------------------- *)

(* One of `graphs` has been built and one of the calls that take its       *)
(* vertices as arguments made on it: calls_on[n] are the calls on a graph  *)
(* of n vertices.                                                          *)
InitCallOn(graphs, calls_on) ==
    /\ \E g \in graphs :
          /\ n_vertices = g.n_vertices
          /\ edges = g.edges
          /\ n_edges = g.n_edges
          /\ call \in calls_on[g.n_vertices]
    /\ pre = [edges |-> edges, n_edges |-> n_edges]

IsLikelyHamiltonianReturns ==
    /\ Awaiting("is_likely_hamiltonian")
    /\ \E r \in IsLikelyHamiltonian(call.args[1]) : Return(Ok(r))

IsLikelyTraceableReturns ==
    /\ Awaiting("is_likely_traceable")
    /\ \E r \in IsLikelyTraceable(call.args[1]) : Return(Ok(r))

IndependenceNumberApproxReturns ==
    /\ Awaiting("independence_number_approx")
    /\ \E r \in IndependenceNumberApprox : Return(Ok(r))

ZagrebUpperBoundReturns ==
    /\ Awaiting("zagreb_upper_bound")
    /\ \E r \in ZagrebUpperBound : Return(Ok(r))

FindVertexDisjointPathsReturns ==
    /\ Awaiting("find_vertex_disjoint_paths")
    /\ \E r \in FindVertexDisjointPaths(call.args[1], call.args[2]) : Return(Ok(r))

FindPathReturns ==
    /\ Awaiting("find_path")
    /\ \E r \in AsOption(FindPath(call.args[1], call.args[2])) : Return(r)

FindPathInSubgraphReturns ==
    /\ Awaiting("find_path_in_subgraph")
    /\ \E r \in AsOption(FindPathInSubgraph(call.args[1], call.args[2], call.args[3])) :
          Return(r)

HeuristicCalls ==
    [op : {"is_likely_hamiltonian", "is_likely_traceable"},
     args : {<<flag>> : flag \in BOOLEAN}, ret : {Pending}]
    \cup [op : {"independence_number_approx", "zagreb_upper_bound"},
          args : {<<>>}, ret : {Pending}]

(* ---------------------------------------------------------------------- *)
(* Specification of the heuristic queries on every small graph             *)
(* ---------------------------------------------------------------------- *)

InitHeuristics == InitCall(AllGraphs(MaxQN), HeuristicCalls)

NextHeuristics ==
    \/ IsLikelyHamiltonianReturns
    \/ IsLikelyTraceableReturns
    \/ IndependenceNumberApproxReturns
    \/ ZagrebUpperBoundReturns

SpecHeuristics == InitHeuristics /\ [][NextHeuristics]_vars

(* ---------------------------------------------------------------------- *)
(* Specification of the queries on the graph families of the tests         *)
(* ---------------------------------------------------------------------- *)

FamilyGraphs ==
    {CompleteGraph(n) : n \in 3 .. MaxShapeN}
    \cup {CycleGraph(n) : n \in 3 .. MaxShapeN}
    \cup {PathGraph(n) : n \in 3 .. MaxShapeN}
    \cup {StarGraph(n) : n \in 4 .. MaxShapeN}
    \cup {CompleteBipartiteGraph(2, 4), PrismGraph, PetersenGraph}

DistinctPairs(n) == {p \in (0 .. (n - 1)) \X (0 .. (n - 1)) : p[1] # p[2]}

FamilyCalls(n) ==
    MetricCalls \cup HeuristicCalls \cup KConnectedCalls(MaxFamilyK)
    \cup [op : {"find_vertex_disjoint_paths"}, args : DistinctPairs(n), ret : {Pending}]

InitFamilies ==
    InitCallOn(FamilyGraphs, [n \in {g.n_vertices : g \in FamilyGraphs} |-> FamilyCalls(n)])

NextFamilies ==
    \/ VertexCountReturns
    \/ EdgeCountReturns
    \/ MinDegreeReturns
    \/ MaxDegreeReturns
    \/ FirstZagrebIndexReturns
    \/ IsKConnectedReturns
    \/ IsKConnectedApproxReturns
    \/ IsKConnectedExactReturns
    \/ IsLikelyHamiltonianReturns
    \/ IsLikelyTraceableReturns
    \/ IndependenceNumberApproxReturns
    \/ ZagrebUpperBoundReturns
    \/ FindVertexDisjointPathsReturns

SpecFamilies == InitFamilies /\ [][NextFamilies]_vars

(* ---------------------------------------------------------------------- *)
(* Specification of the path queries                                       *)
(* ---------------------------------------------------------------------- *)

PathCalls(n) ==
    [op : {"find_path"}, args : (0 .. (n - 1)) \X (0 .. (n - 1)), ret : {Pending}]
    \cup [op : {"find_vertex_disjoint_paths"}, args : DistinctPairs(n), ret : {Pending}]

(* The adjacency mappings a caller can hand to find_path_in_subgraph:      *)
(* any set of neighbours for each key, symmetric or not.                   *)
Mappings(n) == [0 .. (n - 1) -> SUBSET (0 .. (n - 1))]

SubgraphCalls(n) ==
    [op : {"find_path_in_subgraph"},
     args : Mappings(n) \X (0 .. (n - 1)) \X (0 .. (n - 1)), ret : {Pending}]

InitPaths ==
    \/ InitCallOn(AllGraphs(MaxPathN), [n \in 0 .. MaxPathN |-> PathCalls(n)])
    \/ InitCallOn({New(MaxMapN)}, [n \in {MaxMapN} |-> SubgraphCalls(n)])

NextPaths ==
    \/ FindPathReturns
    \/ FindPathInSubgraphReturns
    \/ FindVertexDisjointPathsReturns

SpecPaths == InitPaths /\ [][NextPaths]_vars

(* ---------------------------------------------------------------------- *)
(* Specification of a graph under construction, queried as it grows        *)
(* ---------------------------------------------------------------------- *)

(* Graph::min_degree() *)
MinDegreeQuery ==
    /\ pre' = Snapshot
    /\ call' = [op |-> "min_degree", args |-> <<>>, ret |-> Ok(MinDegree)]
    /\ UNCHANGED <<n_vertices, edges, n_edges>>

(* Graph::max_degree() *)
MaxDegreeQuery ==
    /\ pre' = Snapshot
    /\ call' = [op |-> "max_degree", args |-> <<>>, ret |-> Ok(MaxDegree)]
    /\ UNCHANGED <<n_vertices, edges, n_edges>>

(* Graph::first_zagreb_index() *)
FirstZagrebIndexQuery ==
    /\ pre' = Snapshot
    /\ call' = [op |-> "first_zagreb_index", args |-> <<>>, ret |-> Ok(FirstZagrebIndex)]
    /\ UNCHANGED <<n_vertices, edges, n_edges>>

(* Graph::is_likely_hamiltonian(flag) *)
IsLikelyHamiltonianQuery(flag) ==
    /\ pre' = Snapshot
    /\ \E r \in IsLikelyHamiltonian(flag) :
          call' = [op |-> "is_likely_hamiltonian", args |-> <<flag>>, ret |-> Ok(r)]
    /\ UNCHANGED <<n_vertices, edges, n_edges>>

InitBuild ==
    /\ \E n \in 3 .. MaxBuildN :
          /\ n_vertices = New(n).n_vertices
          /\ edges = New(n).edges
          /\ n_edges = New(n).n_edges
          /\ call = [op |-> "new", args |-> <<n>>, ret |-> Ok(Unit)]
    /\ pre = [edges |-> edges, n_edges |-> n_edges]

NextBuild ==
    \/ \E p \in PairsOf(MaxBuildN) : AddEdge(p[1], p[2])
    \/ EdgeCount
    \/ MinDegreeQuery
    \/ MaxDegreeQuery
    \/ FirstZagrebIndexQuery
    \/ IsLikelyHamiltonianQuery(FALSE)

SpecBuild == InitBuild /\ [][NextBuild]_vars

(* ---------------------------------------------------------------------- *)
(* Properties of the adjacency store                                       *)
(* ---------------------------------------------------------------------- *)

RECURSIVE SumOver(_, _)
SumOver(f, S) ==
    IF S = {} THEN 0
    ELSE LET x == CHOOSE y \in S : TRUE IN f[x] + SumOver(f, S \ {x})

DegreeSum(e) == SumOver([v \in DOMAIN e |-> Cardinality(e[v])], DOMAIN e)

IsAddEdge == call.op = "add_edge"
ArgU == call.args[1]
ArgV == call.args[2]
StoreUnchanged == edges = pre.edges /\ n_edges = pre.n_edges

(* C1: after any sequence of add_edge calls the adjacency relation is      *)
(* symmetric: v is in adjacency[u] iff u is in adjacency[v].               *)
C1_Symmetric ==
    \A u \in Vertices, v \in Vertices : (v \in edges[u]) <=> (u \in edges[v])

(* A graph with two edges on which the last add_edge was rejected. *)
C1_Witness == IsAddEdge /\ call.ret.tag = "Err" /\ n_edges >= 2

(* C2: n_edges is half the sum of the sizes of the adjacency sets: the sum *)
(* of degree(v) over all v is 2 * edge_count().                            *)
C2_EdgeCountIsHalfDegreeSum ==
    /\ DegreeSum(edges) = 2 * n_edges
    /\ (call.op = "edge_count" => call.ret = Ok(n_edges))
    /\ (call.op = "degree" /\ call.args[1] < n_vertices
          => call.ret = Ok(Cardinality(edges[call.args[1]])))

(* edge_count() answered 3 on a graph whose degrees sum to 6. *)
C2_Witness == call.op = "edge_count" /\ call.ret = Ok(3) /\ DegreeSum(edges) = 6

(* C3: no vertex is its own neighbour. *)
C3_NoSelfLoops == \A v \in Vertices : v \notin edges[v]

(* add_edge(v, v) was just rejected as a self-loop on a graph with an edge at v. *)
C3_Witness ==
    /\ IsAddEdge /\ ArgU = ArgV /\ call.ret = Err(SelfLoop)
    /\ edges[ArgU] # {}

(* C4: add_edge is idempotent: when the edge {u, v} is already there,      *)
(* add_edge(u, v) and add_edge(v, u) return Ok and leave edge_count, every *)
(* degree and the adjacency relation as they were.                         *)
C4_Idempotent ==
    (/\ IsAddEdge
     /\ ~OutOfBounds(ArgU, ArgV)
     /\ (ArgV \in pre.edges[ArgU] \/ ArgU \in pre.edges[ArgV]))
    => /\ call.ret = Ok(Unit)
       /\ StoreUnchanged
       /\ \A w \in Vertices : Cardinality(edges[w]) = Cardinality(pre.edges[w])

(* add_edge(v, u) repeated in the reverse direction of an existing edge. *)
C4_Witness ==
    /\ IsAddEdge /\ ~OutOfBounds(ArgU, ArgV)
    /\ ArgU > ArgV /\ ArgV \in pre.edges[ArgU] /\ pre.n_edges >= 2

(* C5: add_edge with u or v out of range, and degree with v out of range,  *)
(* return the InvalidVertex error and change nothing.                      *)
C5_InvalidVertexRejected ==
    /\ (IsAddEdge /\ (ArgU >= n_vertices \/ ArgV >= n_vertices)
          => call.ret = Err(InvalidVertex) /\ StoreUnchanged)
    /\ (call.op = "degree" /\ call.args[1] >= n_vertices
          => call.ret = Err(InvalidVertex) /\ StoreUnchanged)

(* degree(n_vertices) was rejected on a graph that has edges. *)
C5_Witness ==
    /\ call.op = "degree" /\ call.args[1] = n_vertices
    /\ call.ret = Err(InvalidVertex) /\ n_edges >= 1

(* C6 as stated: add_edge(u, u) fails with SelfLoop for every u. *)
C6_SelfLoopAlways ==
    (IsAddEdge /\ ArgU = ArgV) => (call.ret = Err(SelfLoop) /\ StoreUnchanged)

(* C6 as amended: add_edge(u, u) always fails and changes nothing; the     *)
(* error is SelfLoop when u is a vertex of the graph and InvalidVertex     *)
(* when u >= vertex_count, because the bounds check comes first.           *)
C6_SelfLoopInRange ==
    (IsAddEdge /\ ArgU = ArgV)
    => /\ StoreUnchanged
       /\ (ArgU < n_vertices => call.ret = Err(SelfLoop))
       /\ (ArgU >= n_vertices => call.ret = Err(InvalidVertex))

(* add_edge(u, u) rejected as a self-loop at the last vertex of a graph with edges. *)
C6_Witness ==
    /\ IsAddEdge /\ ArgU = ArgV /\ ArgU = n_vertices - 1
    /\ call.ret = Err(SelfLoop) /\ n_edges >= 1

(* ---------------------------------------------------------------------- *)
(* Properties of the connectivity queries                                  *)
(* ---------------------------------------------------------------------- *)

Returned == call.ret # Pending
ArgK == call.args[1]

(* C7: every query completes on every validly constructed graph, the       *)
(* zero-vertex graph included: no call ends in a panic.                    *)
C7_QueriesTotal == call.ret.tag # "Panic"

(* The vertices reachable from `from` when the vertices of S are deleted. *)
RECURSIVE ReachableAvoiding(_, _)
ReachableAvoiding(seen, S) ==
    LET more == ((UNION {edges[v] : v \in seen}) \ S) \ seen
    IN IF more = {} THEN seen ELSE ReachableAvoiding(seen \cup more, S)

ConnectedWithout(S) ==
    LET rest == Vertices \ S
    IN rest = {} \/ ReachableAvoiding({CHOOSE v \in rest : TRUE}, S) = rest

(* k-vertex-connectivity by definition: more than k vertices, and no set   *)
(* of fewer than k vertices whose removal disconnects the graph.           *)
IsKVertexConnected(k) ==
    /\ n_vertices > k
    /\ \A S \in SUBSET Vertices : Cardinality(S) < k => ConnectedWithout(S)

(* C8: is_k_connected_exact(k) returns true iff the graph is               *)
(* k-vertex-connected, for every graph on n >= 1 vertices, every k >= 1    *)
(* and every order in which neighbour sets are iterated.                   *)
C8_ExactIsCorrect ==
    (call.op = "is_k_connected_exact" /\ Returned /\ n_vertices >= 1 /\ ArgK >= 1)
    => call.ret = Ok(IsKVertexConnected(ArgK))

IsCompleteGraph == \A u \in Vertices, v \in Vertices : u # v => v \in edges[u]

(* C9: on a complete graph with n >= 2 vertices, is_k_connected(k, true),  *)
(* is_k_connected(k, false), is_k_connected_exact(k) and                   *)
(* is_k_connected_approx(k) all return k <= n - 1, for every k >= 1.       *)
C9_CompleteGraphConnectivity ==
    (/\ IsCompleteGraph /\ n_vertices >= 2
     /\ call.op \in {"is_k_connected", "is_k_connected_approx", "is_k_connected_exact"}
     /\ Returned /\ ArgK >= 1)
    => call.ret = Ok(ArgK <= n_vertices - 1)

(* is_k_connected(5, true) answered true on K6. *)
C9_Witness ==
    /\ IsCompleteGraph /\ n_vertices = 6 /\ n_edges = 15
    /\ call.op = "is_k_connected" /\ call.args = <<5, TRUE>> /\ call.ret = Ok(TRUE)

(* The cycle graph Cn with the edges i -- (i + 1) mod n. *)
IsStandardCycle ==
    /\ n_vertices >= 3
    /\ \A i \in Vertices :
          edges[i] = {(i + 1) % n_vertices, (i + n_vertices - 1) % n_vertices}

(* C10: on every cycle graph Cn, n >= 3, is_k_connected_exact(k) is true   *)
(* for k = 1 and k = 2 and false for k = 3, and is_k_connected_approx(k)   *)
(* returns what is_k_connected_exact(k) returns for k = 1, 2, 3.           *)
C10_CycleConnectivity ==
    (IsStandardCycle /\ Returned /\ ArgK \in 1 .. 3)
    => /\ (call.op = "is_k_connected_exact" => call.ret = Ok(ArgK <= 2))
       /\ (call.op = "is_k_connected_approx"
             => IsKConnectedExact(ArgK) = {call.ret})

(* is_k_connected_exact(2) answered true on C6. *)
C10_Witness ==
    /\ IsStandardCycle /\ n_vertices = 6
    /\ call.op = "is_k_connected_exact" /\ ArgK = 2 /\ call.ret = Ok(TRUE)

(* ---------------------------------------------------------------------- *)
(* Properties of the Hamiltonicity and traceability heuristics             *)
(* ---------------------------------------------------------------------- *)

ArgFlag == call.args[1]

(* C11: likely-Hamiltonian implies likely-traceable, for every graph and   *)
(* each value of the flag.  Both calls read the same unchanged sets, hence *)
(* iterate them in the same order, so the claim is that                    *)
(* is_likely_traceable(flag) returns false only where                      *)
(* is_likely_hamiltonian(flag) can return false, and never where it can    *)
(* only return true.                                                       *)
C11_HamiltonianImpliesTraceable ==
    (call.op = "is_likely_traceable" /\ call.ret = Ok(FALSE))
    => FALSE \in IsLikelyHamiltonian(ArgFlag)

(* is_likely_traceable answered true on a graph that only its Hamiltonian  *)
(* shortcut accepts (such as C6: no known shape, degree condition failed). *)
C11_Witness ==
    /\ call.op = "is_likely_traceable" /\ call.ret = Ok(TRUE)
    /\ IsLikelyHamiltonian(ArgFlag) = {TRUE}
    /\ TraceableAfter(FALSE, ArgFlag) = {FALSE}

(* The Petersen graph as the tests build it. *)
IsPetersenGraph == n_vertices = 10 /\ edges = PetersenGraph.edges

(* C12: on the Petersen graph first_zagreb_index() is 90,                  *)
(* is_k_connected(3, true) and is_k_connected(3, false) are true,          *)
(* is_likely_hamiltonian is false and is_likely_traceable is true for both *)
(* flags, and independence_number_approx() is at least 4 whichever         *)
(* minimizer the greedy loop picks and however the sets are iterated.      *)
C12_PetersenGraph ==
    (IsPetersenGraph /\ Returned)
    => /\ (call.op = "first_zagreb_index" => call.ret = Ok(90))
       /\ (call.op = "is_k_connected" /\ ArgK = 3 => call.ret = Ok(TRUE))
       /\ (call.op = "is_likely_hamiltonian" => call.ret = Ok(FALSE))
       /\ (call.op = "is_likely_traceable" => call.ret = Ok(TRUE))
       /\ (call.op = "independence_number_approx"
             => call.ret.tag = "Ok" /\ call.ret.val >= 4)

(* is_likely_traceable(true) answered true on the Petersen graph. *)
C12_Witness ==
    /\ IsPetersenGraph /\ n_edges = 15
    /\ call.op = "is_likely_traceable" /\ call.args = <<TRUE>> /\ call.ret = Ok(TRUE)

(* A star: one centre adjacent to every other vertex, and no other edge. *)
IsStarGraph ==
    \E c \in Vertices :
        /\ edges[c] = Vertices \ {c}
        /\ \A v \in Vertices \ {c} : edges[v] = {c}

(* C13: on every star graph with more than 3 vertices and on every graph   *)
(* with at least 3 vertices for which is_path() is true,                   *)
(* is_likely_hamiltonian(flag) is false and is_likely_traceable(flag) is   *)
(* true, for both flag values.                                             *)
C13_TreeShapes ==
    (/\ (IsStarGraph /\ n_vertices > 3) \/ (IsPath /\ n_vertices >= 3)
     /\ Returned)
    => /\ (call.op = "is_likely_hamiltonian" => call.ret = Ok(FALSE))
       /\ (call.op = "is_likely_traceable" => call.ret = Ok(TRUE))

(* is_likely_traceable(false) answered true on the path 0 - 1 - 2 - 3 - 4. *)
C13_Witness ==
    /\ n_vertices = 5 /\ edges = PathGraph(5).edges /\ IsPath
    /\ call.op = "is_likely_traceable" /\ call.args = <<FALSE>> /\ call.ret = Ok(TRUE)

(* C14: once add_edge has been called for all pairs of n >= 3 vertices, in *)
(* any order, edge_count() is n(n-1)/2, min_degree() and max_degree() are  *)
(* n - 1, first_zagreb_index() is n(n-1)^2 (80 for n = 5, 150 for n = 6)   *)
(* and is_likely_hamiltonian(false) is true.                               *)
C14_CompleteGraphMetrics ==
    (IsCompleteGraph /\ n_vertices >= 3)
    => /\ (call.op = "edge_count"
             => call.ret = Ok((n_vertices * (n_vertices - 1)) \div 2))
       /\ (call.op \in {"min_degree", "max_degree"}
             => call.ret = Ok(n_vertices - 1))
       /\ (call.op = "first_zagreb_index"
             => call.ret = Ok(n_vertices * (n_vertices - 1) * (n_vertices - 1)))
       /\ (call.op = "is_likely_hamiltonian" => call.ret = Ok(TRUE))

(* first_zagreb_index() answered 150 on K6 built edge by edge. *)
C14_Witness ==
    /\ IsCompleteGraph /\ n_vertices = 6 /\ n_edges = 15
    /\ call.op = "first_zagreb_index" /\ call.ret = Ok(150)

(* C15: for all graphs first_zagreb_index() is at most the value that      *)
(* zagreb_upper_bound() returns, whichever independent set the greedy      *)
(* routine ends with.                                                      *)
C15_ZagrebWithinUpperBound ==
    (call.op = "zagreb_upper_bound" /\ Returned)
    => UsizeLeF64(FirstZagrebIndex, call.ret.val)

(* C16: independence_number_approx() returns 3 on the path P5, 2 on the    *)
(* cycle C5 and 1 on the complete graph K5, whichever vertex of minimum    *)
(* remaining degree is picked on ties.                                     *)
C16_IndependenceNumbers ==
    (call.op = "independence_number_approx" /\ Returned /\ n_vertices = 5)
    => /\ (edges = PathGraph(5).edges => call.ret = Ok(3))
       /\ (edges = CycleGraph(5).edges => call.ret = Ok(2))
       /\ (edges = CompleteGraph(5).edges => call.ret = Ok(1))

(* independence_number_approx() answered 3 on P5, where the first pick is  *)
(* one of the two end vertices.                                            *)
C16_Witness ==
    /\ n_vertices = 5 /\ edges = PathGraph(5).edges
    /\ Cardinality(MinDegreeVertex(Vertices)) = 2
    /\ call.op = "independence_number_approx" /\ call.ret = Ok(3)

(* The prism as the tests build it. *)
IsPrismGraph == n_vertices = 6 /\ edges = PrismGraph.edges

(* C17: on the prism, however the BFS iterates the neighbour sets,         *)
(* find_vertex_disjoint_paths(0, 5) returns 3, is_k_connected_exact(3)     *)
(* returns true and is_k_connected_exact(4) returns false.                 *)
C17_Prism ==
    (IsPrismGraph /\ Returned)
    => /\ (call.op = "find_vertex_disjoint_paths" /\ call.args = <<0, 5>>
             => call.ret = Ok(3))
       /\ (call.op = "is_k_connected_exact" /\ ArgK = 3 => call.ret = Ok(TRUE))
       /\ (call.op = "is_k_connected_exact" /\ ArgK = 4 => call.ret = Ok(FALSE))

(* find_vertex_disjoint_paths(0, 5) answered 3 on the prism, where the     *)
(* first search has two shortest paths to choose from.                     *)
C17_Witness ==
    /\ IsPrismGraph
    /\ Cardinality(FindPathInSubgraph(edges, 0, 5)) = 2
    /\ call.op = "find_vertex_disjoint_paths" /\ call.args = <<0, 5>>
    /\ call.ret = Ok(3)

(* ---------------------------------------------------------------------- *)
(* Properties of the path searches                                         *)
(* ---------------------------------------------------------------------- *)

ArgS == call.args[1]
ArgT == call.args[2]

(* The most paths of `paths` that can be chosen with no internal vertex    *)
(* shared between two of them, none of them using a vertex of `used`.      *)
RECURSIVE MaxPacking(_, _)
MaxPacking(paths, used) ==
    LET fit == {p \in paths : InternalVertices(p) \cap used = {}}
    IN IF fit = {} THEN 0
       ELSE SetMax({1 + MaxPacking(fit \ {p}, used \cup InternalVertices(p)) :
                    p \in fit})

(* The maximum number of pairwise internally vertex-disjoint s-t paths. *)
MaxDisjointPaths(s, t) == MaxPacking(SimplePaths(edges, s, t), {})

(* C18: find_vertex_disjoint_paths(s, t) returns exactly the maximum       *)
(* number of pairwise internally vertex-disjoint s-t paths, for every      *)
(* graph, every pair of distinct vertices and every iteration order.       *)
C18_FindsMaximum ==
    (call.op = "find_vertex_disjoint_paths" /\ Returned)
    => call.ret = Ok(MaxDisjointPaths(ArgS, ArgT))

PairwiseInternallyDisjoint(run) ==
    \A i \in 1 .. Len(run), j \in 1 .. Len(run) :
        i < j => InternalVertices(run[i]) \cap InternalVertices(run[j]) = {}

(* C19: when find_vertex_disjoint_paths(s, t) takes none of its shortcuts, *)
(* the paths its loop counts are pairwise internally vertex-disjoint, none *)
(* of them is the direct edge (s, t) when s and t are adjacent, and the    *)
(* value returned is their number, plus one for the direct edge.           *)
C19_CountedPathsDisjoint ==
    (call.op = "find_vertex_disjoint_paths" /\ Returned /\ ~FastPath(ArgS, ArgT))
    => LET direct == IF ArgT \in edges[ArgS] THEN 1 ELSE 0
       IN /\ \A run \in CountedPaths(ArgS, ArgT) :
                /\ PairwiseInternallyDisjoint(run)
                /\ \A i \in 1 .. Len(run) : run[i] # <<ArgS, ArgT>>
          /\ \E run \in CountedPaths(ArgS, ArgT) : call.ret = Ok(direct + Len(run))

(* find_vertex_disjoint_paths answered 3 for two adjacent vertices after   *)
(* its loop counted two paths with internal vertices.                      *)
C19_Witness ==
    /\ call.op = "find_vertex_disjoint_paths" /\ call.ret = Ok(3)
    /\ ~FastPath(ArgS, ArgT) /\ ArgT \in edges[ArgS]
    /\ \E run \in CountedPaths(ArgS, ArgT) :
          Len(run) = 2 /\ \A i \in 1 .. 2 : InternalVertices(run[i]) # {}

(* The vertices that can be reached from those of `seen` along m. *)
RECURSIVE ReachableIn(_, _)
ReachableIn(m, seen) ==
    LET more == (UNION {m[v] : v \in seen}) \ seen
    IN IF more = {} THEN seen ELSE ReachableIn(m, seen \cup more)

(* path goes from s to t along m without repeating a vertex. *)
IsSimplePath(m, s, t, path) ==
    /\ Len(path) >= 1 /\ path[1] = s /\ path[Len(path)] = t
    /\ \A i \in 1 .. (Len(path) - 1) : path[i + 1] \in m[path[i]]
    /\ \A i \in 1 .. Len(path), j \in 1 .. Len(path) : path[i] = path[j] => i = j

(* C20: find_path(s, t) and find_path_in_subgraph(edges, s, t), s and t in *)
(* range, return a path exactly when t can be reached from s in the        *)
(* mapping; the path starts at s, ends at t, follows the mapping, repeats  *)
(* no vertex and no s-t path has fewer edges; it is [s] when s = t.        *)
C20_ShortestPath ==
    (call.op \in {"find_path", "find_path_in_subgraph"} /\ Returned)
    => LET m == IF call.op = "find_path" THEN edges ELSE call.args[1]
           s == IF call.op = "find_path" THEN call.args[1] ELSE call.args[2]
           t == IF call.op = "find_path" THEN call.args[2] ELSE call.args[3]
       IN /\ (call.ret = None) = (t \notin ReachableIn(m, {s}))
          /\ call.ret # None
               => /\ call.ret.tag = "Some"
                  /\ IsSimplePath(m, s, t, call.ret.val)
                  /\ \A other \in SimplePaths(m, s, t) :
                        Len(call.ret.val) <= Len(other)
                  /\ (s = t => call.ret.val = <<s>>)

(* find_path answered a two-edge path on a graph that also holds a longer   *)
(* way from s to t.                                                        *)
C20_Witness ==
    /\ call.op = "find_path" /\ call.ret.tag = "Some"
    /\ Len(call.ret.val) = 3
    /\ \E other \in SimplePaths(edges, ArgS, ArgT) : Len(other) > 3

(* ---------------------------------------------------------------------- *)
(* Specification of the search loop, one BFS search per step               *)
(* ---------------------------------------------------------------------- *)

(* The attempt cap scaled down, beside the cap of the source. *)
ScaledAttempts == 1
AttemptCaps == {ScaledAttempts, MaxAttempts}

(* find_vertex_disjoint_paths is inside one of its two while-let loops:    *)
(* the frame holds the locals of the call and the position in the loop.    *)
InLoop(frame) == [tag |-> "InLoop", val |-> frame]
Looping == call.ret.tag = "InLoop"

(* The locals when the loop is entered: the adjacent case searches         *)
(* modified_edges for up to max_possible_paths - 1 paths beside the direct *)
(* edge, the other case the whole graph for up to max_possible_paths.      *)
(* searches counts the calls of find_path_in_subgraph made so far.         *)
LoopEntry(s, t, max_attempts) ==
    LET max_possible_paths == MinOf(Deg(s), Deg(t))
        adjacent == t \in edges[s]
    IN [working_edges |-> IF adjacent THEN WithoutDirectEdge(s, t) ELSE edges,
        direct |-> IF adjacent THEN 1 ELSE 0,
        limit |-> IF adjacent THEN max_possible_paths - 1 ELSE max_possible_paths,
        max_attempts |-> max_attempts,
        path_count |-> 0,
        attempts |-> 0,
        searches |-> 0,
        pc |-> "search",
        found |-> None]

(* The call runs up to its loop: it returns from a fast path or enters the *)
(* loop of the adjacent or of the non-adjacent case.                       *)
FindVertexDisjointPathsEnters ==
    /\ Awaiting("find_vertex_disjoint_paths")
    /\ LET s == call.args[1]
           t == call.args[2]
       IN IF FastPath(s, t)
          THEN \E r \in FindVertexDisjointPaths(s, t) : Return(Ok(r))
          ELSE /\ \E cap \in AttemptCaps :
                     call' = [call EXCEPT !.ret = InLoop(LoopEntry(s, t, cap))]
               /\ UNCHANGED <<n_vertices, edges, n_edges, pre>>

(* while let Some(path) = self.find_path_in_subgraph(&working_edges, s, t) *)
FindVertexDisjointPathsSearches ==
    /\ Looping
    /\ call.ret.val.pc = "search"
    /\ LET frame == call.ret.val
       IN \E found \in AsOption(FindPathInSubgraph(frame.working_edges,
                                                   call.args[1], call.args[2])) :
             call' = [call EXCEPT !.ret = InLoop([frame EXCEPT
                          !.searches = @ + 1, !.found = found, !.pc = "body"])]
    /\ UNCHANGED <<n_vertices, edges, n_edges, pre>>

(* The loop body on the path found, or the return when none was found. *)
FindVertexDisjointPathsCounts ==
    /\ Looping
    /\ call.ret.val.pc = "body"
    /\ LET frame == call.ret.val
       IN IF frame.found = None
          THEN Return(Ok(frame.direct + frame.path_count))
          ELSE IF frame.path_count + 1 >= frame.limit
                  \/ frame.attempts >= frame.max_attempts
          THEN Return(Ok(frame.direct + frame.path_count + 1))
          ELSE /\ call' = [call EXCEPT !.ret = InLoop([frame EXCEPT
                              !.path_count = @ + 1,
                              !.attempts = @ + 1,
                              !.working_edges = RemoveInternal(@, frame.found.val, 2),
                              !.found = None,
                              !.pc = "search"])]
               /\ UNCHANGED <<n_vertices, edges, n_edges, pre>>

SearchCalls(n) ==
    [op : {"find_vertex_disjoint_paths"}, args : DistinctPairs(n), ret : {Pending}]

InitSearch ==
    InitCallOn(AllGraphs(MaxPathN), [n \in 0 .. MaxPathN |-> SearchCalls(n)])

NextSearch ==
    \/ FindVertexDisjointPathsEnters
    \/ FindVertexDisjointPathsSearches
    \/ FindVertexDisjointPathsCounts

SpecSearch == InitSearch /\ [][NextSearch]_vars

(* The call is one sequential computation: a step that can be taken is     *)
(* taken.                                                                  *)
SpecSearchFair == SpecSearch /\ WF_vars(NextSearch)

(* ---------------------------------------------------------------------- *)
(* Claims about the search loop                                            *)
(* ---------------------------------------------------------------------- *)

Frame == call.ret.val

(* The vertices without a neighbour in a working copy. *)
Isolated(w) == {v \in DOMAIN w : w[v] = {}}

(* The loop body has run and has not stopped the loop. *)
LoopContinues ==
    /\ Looping /\ Frame.pc = "body"
    /\ call'.ret.tag = "InLoop" /\ call'.ret.val.pc = "search"

(* C21: every call of find_vertex_disjoint_paths(s, t), s # t in range,    *)
(* returns; each loop iteration that does not stop the loop leaves at      *)
(* least one more vertex of the working copy without neighbours; and the   *)
(* number of BFS searches of one call is at most the number of vertices,   *)
(* also in the calls in which the attempt cap is never reached.            *)
C21_SearchTerminates ==
    /\ <>(call.ret.tag = "Ok")
    /\ [][LoopContinues =>
            /\ Isolated(Frame.working_edges) \subseteq Isolated(call'.ret.val.working_edges)
            /\ Isolated(Frame.working_edges) # Isolated(call'.ret.val.working_edges)]_vars
    /\ [](Looping => Frame.searches <= n_vertices)

(* Below the cap of the source, a call is making its third search. *)
C21_Witness ==
    /\ Looping /\ Frame.pc = "body"
    /\ Frame.max_attempts = MaxAttempts
    /\ Frame.searches = 3
    /\ Frame.found # None

(* C22: in one call of find_vertex_disjoint_paths, adjacent case or not,   *)
(* the loop makes at most max_attempts BFS searches (100 in the source, C  *)
(* when the cap is scaled down to C).                                      *)
C22_AtMostCapSearches ==
    Looping => Frame.searches <= Frame.max_attempts

(* ---------------------------------------------------------------------- *)
(* Specification of the cycle classifier                                   *)
(* ---------------------------------------------------------------------- *)

IsCycleReturns ==
    /\ Awaiting("is_cycle")
    /\ Return(Ok(IsCycle))

ClassifierCalls == [op : {"is_cycle"}, args : {<<>>}, ret : {Pending}]

InitClassifiers == InitCall(AllGraphs(MaxQN), ClassifierCalls)

NextClassifiers == IsCycleReturns

SpecClassifiers == InitClassifiers /\ [][NextClassifiers]_vars

(* Every vertex has degree exactly 2 and there are as many edges as        *)
(* vertices.                                                               *)
DegreeTwoSignature ==
    /\ \A v \in Vertices : Cardinality(edges[v]) = 2
    /\ n_edges = n_vertices

(* Two disjoint triangles on 6 vertices. *)
IsTwoTriangles ==
    /\ n_vertices = 6
    /\ \E a \in SUBSET Vertices :
          /\ Cardinality(a) = 3
          /\ \A v \in a : edges[v] = a \ {v}
          /\ \A v \in Vertices \ a : edges[v] = (Vertices \ a) \ {v}

(* C23 as stated: on every graph built by add_edge, is_cycle() is true     *)
(* exactly when every vertex has degree 2 and edge_count() equals          *)
(* vertex_count().                                                         *)
C23_DegreeSignatureAlways ==
    (call.op = "is_cycle" /\ Returned) => call.ret = Ok(DegreeTwoSignature)

(* C23: on every graph of at least one vertex built by add_edge,           *)
(* is_cycle() is true exactly when every vertex has degree 2 and           *)
(* edge_count() equals vertex_count(), connected or not: it is true on two *)
(* disjoint triangles; on the graph without vertices it is false.          *)
C23_DegreeSignature ==
    (call.op = "is_cycle" /\ Returned)
    => /\ n_vertices >= 1 => call.ret = Ok(DegreeTwoSignature)
       /\ n_vertices = 0 => call.ret = Ok(FALSE)
       /\ IsTwoTriangles => call.ret = Ok(TRUE)

(* is_cycle() has answered true on two disjoint triangles, a graph that is *)
(* not connected.                                                          *)
C23_Witness ==
    /\ call.op = "is_cycle" /\ call.ret = Ok(TRUE)
    /\ IsTwoTriangles
    /\ ~IsConnected

(* ---------------------------------------------------------------------- *)
(* Claims about the greedy independent set                                 *)
(* ---------------------------------------------------------------------- *)

IsIndependent(I) == \A u \in I, v \in I : v \notin edges[u]

(* The independence number: the size of a largest independent set. *)
IndependenceNumber ==
    SetMax({Cardinality(I) : I \in {J \in SUBSET Vertices : IsIndependent(J)}})

(* C24: whichever minimizers are picked, the set that                      *)
(* independence_number_approx() selects is independent, every vertex       *)
(* outside it has a neighbour in it and it has at most n members; the      *)
(* returned size is at least 1 when n >= 1, at most the independence       *)
(* number, and n when the graph has no edge.                               *)
C24_GreedyIsMaximal ==
    (call.op = "independence_number_approx" /\ Returned)
    => /\ \A I \in GreedyIndependentSets(Vertices, {}) :
             /\ I \subseteq Vertices
             /\ IsIndependent(I)
             /\ \A v \in Vertices \ I : edges[v] \cap I # {}
             /\ Cardinality(I) <= n_vertices
       /\ \E I \in GreedyIndependentSets(Vertices, {}) : call.ret = Ok(Cardinality(I))
       /\ n_vertices >= 1 => call.ret.val >= 1
       /\ call.ret.val <= IndependenceNumber
       /\ n_edges = 0 => call.ret.val = n_vertices

(* The routine returned less than the independence number on a graph where *)
(* another choice among the minimizers gives a larger set.                 *)
C24_Witness ==
    /\ call.op = "independence_number_approx" /\ Returned
    /\ n_edges > 0
    /\ call.ret.val < IndependenceNumber
    /\ \E I \in GreedyIndependentSets(Vertices, {}) : Cardinality(I) > call.ret.val

(* ---------------------------------------------------------------------- *)
(* Claims about the Hamiltonicity answer                                   *)
(* ---------------------------------------------------------------------- *)

(* A cycle through every vertex exactly once: a simple path from vertex 0  *)
(* over all n >= 3 vertices whose last vertex is a neighbour of 0.         *)
HasHamiltonianCycle ==
    /\ n_vertices >= 3
    /\ \E v \in edges[0] :
          \E path \in SimplePaths(edges, 0, v) : Len(path) = n_vertices

(* C25: on every graph of n >= 3 vertices, when is_likely_hamiltonian(true) *)
(* returns true the graph has a Hamiltonian cycle.                         *)
C25_NoFalsePositives ==
    (/\ call.op = "is_likely_hamiltonian" /\ ArgFlag = TRUE
     /\ n_vertices >= 3 /\ call.ret = Ok(TRUE))
    => HasHamiltonianCycle

(* ---------------------------------------------------------------------- *)
(* Claims that compare the connectivity checkers                           *)
(* ---------------------------------------------------------------------- *)

(* C26: on every graph of n >= 1 vertices and for every k >= 2,            *)
(* is_k_connected_approx(k) returns true exactly when k <= n - 1 and       *)
(* min_degree() >= k; whenever these two tests pass, edge_count() is at    *)
(* least (n - 1) * k / 2 + 1, so the Zagreb ratio is never consulted.      *)
C26_ApproxIsMinDegreeTest ==
    (/\ call.op = "is_k_connected_approx" /\ Returned
     /\ n_vertices >= 1 /\ ArgK >= 2)
    => /\ call.ret = Ok(ArgK <= n_vertices - 1 /\ MinDegree >= ArgK)
       /\ (ArgK <= n_vertices - 1 /\ MinDegree >= ArgK)
            => n_edges >= ((n_vertices - 1) * ArgK) \div 2 + 1

(* is_k_connected_approx(k), k >= 2, answered true on a graph that is      *)
(* neither complete nor a cycle and whose Zagreb ratio is below k times    *)
(* the average degree.                                                     *)
C26_Witness ==
    /\ call.op = "is_k_connected_approx" /\ call.ret = Ok(TRUE)
    /\ ArgK >= 2
    /\ ~IsComplete /\ ~IsCycle
    /\ ~ZagrebRatioAtLeast(ArgK)

(* C27: on every graph of n >= 1 vertices and for every k >= 1, when       *)
(* is_k_connected_exact(k) returns true then is_k_connected_approx(k)      *)
(* returns true, and when is_k_connected(k, true) returns true then        *)
(* is_k_connected(k, false) returns true.                                  *)
C27_ApproxNotStricter ==
    (Returned /\ n_vertices >= 1 /\ call.ret = Ok(TRUE))
    => /\ (call.op = "is_k_connected_exact" /\ ArgK >= 1)
            => IsKConnectedApprox(ArgK) = {Ok(TRUE)}
       /\ (call.op = "is_k_connected" /\ ArgK >= 1 /\ call.args[2] = TRUE)
            => IsKConnected(ArgK, FALSE) = {Ok(TRUE)}

(* is_k_connected_exact(3) answered true after its pair loop, on a graph   *)
(* that is not complete.                                                   *)
C27_Witness ==
    /\ call.op = "is_k_connected_exact" /\ call.ret = Ok(TRUE)
    /\ ArgK = 3
    /\ ~IsComplete
    /\ IsKConnectedApprox(ArgK) = {Ok(TRUE)}

(* C28: on every graph of n >= 1 vertices and for every k >= 2, when       *)
(* is_k_connected_exact(k) returns true, is_k_connected_exact(k - 1)       *)
(* returns true as well.                                                   *)
C28_ExactMonotone ==
    (/\ call.op = "is_k_connected_exact" /\ call.ret = Ok(TRUE)
     /\ n_vertices >= 1 /\ ArgK >= 2)
    => Ok(TRUE) \in IsKConnectedExact(ArgK - 1)

(* C29: is_k_connected_exact(k), k >= 1, has one possible result on each   *)
(* graph of at least one vertex, whatever the order in which the BFS       *)
(* iterates the neighbour sets: the value returned is the only value the   *)
(* call can return.                                                        *)
C29_ExactDeterministic ==
    (/\ call.op = "is_k_connected_exact" /\ Returned
     /\ n_vertices >= 1 /\ ArgK >= 1)
    => IsKConnectedExact(ArgK) = {call.ret}

(* ---------------------------------------------------------------------- *)
(* Claims about the number of paths returned                               *)
(* ---------------------------------------------------------------------- *)

(* C30: find_vertex_disjoint_paths(s, t), s # t in range, returns at most  *)
(* min(degree(s), degree(t)) from each of its return statements and for    *)
(* every iteration order, and when it takes the adjacent case that minimum *)
(* is at least 1, so max_possible_paths - 1 is no underflow.               *)
C30_AtMostMinDegree ==
    (call.op = "find_vertex_disjoint_paths" /\ Returned)
    => LET max_possible_paths ==
               MinOf(Cardinality(edges[ArgS]), Cardinality(edges[ArgT]))
       IN /\ call.ret.tag = "Ok"
          /\ call.ret.val <= max_possible_paths
          /\ (~FastPath(ArgS, ArgT) /\ ArgT \in edges[ArgS])
                => ~UsizeSub(max_possible_paths, 1).overflow

(* The adjacent case returned the direct edge and one more path between    *)
(* two vertices of degree 2: the bound is attained.                        *)
C30_Witness ==
    /\ call.op = "find_vertex_disjoint_paths" /\ Returned
    /\ ~FastPath(ArgS, ArgT)
    /\ ArgT \in edges[ArgS]
    /\ call.ret.val = 2
    /\ MinOf(Cardinality(edges[ArgS]), Cardinality(edges[ArgT])) = 2

====
